---- MODULE Spec2Model ----
(***************************************************************************)
(* Model of glucose_sbi/glucose_simulator.py: building a batch of patched  *)
(* simulation environments from a parameter matrix and running the batch   *)
(* through a process pool.                                                 *)
(*                                                                         *)
(* Python lists are TLA+ sequences, so Python index k is index k+1 here.   *)
(* Parameter names are sequences of characters so that the test            *)
(* `"meal" in param` is a real substring test.  Objects that the code      *)
(* copies and mutates in place (the patient parameter record and the       *)
(* scenario list of every environment) live in a heap and are reached by   *)
(* reference, so that aliasing between environments is expressible.        *)
(***************************************************************************)
EXTENDS Integers, Sequences, FiniteSets, TLC

MaxRows == 2
MaxCols == 2
MaxNames == 2
MaxMeals == 2

\* ------------------------------------------------------------------ inputs

BW == <<"B", "W">>
kabs == <<"k", "a", "b", "s">>
meal_1 == <<"m", "e", "a", "l", "_", "1">>
meal_2 == <<"m", "e", "a", "l", "_", "2">>
premeal == <<"p", "r", "e", "m", "e", "a", "l">>
foo == <<"f", "o", "o">>

MEAL == <<"m", "e", "a", "l">>

\* attributes present on the patient parameter record at construction
default_params == (BW :> 80) @@ (kabs :> 5)

PatientAttrs == DOMAIN default_params

AllNames == {BW, kabs, meal_1, meal_2, premeal, foo}

Values == {60, 70}

AllMeals == << <<"breakfast", 40>>, <<"lunch", 50>>, <<"dinner", 30>>, <<"snack", 20>> >>

Scenarios == {SubSeq(AllMeals, 1, k) : k \in 0..MaxMeals}

\* InferredParams.params_names: ordered, pairwise different names
NameSeqs ==
  UNION {{s \in [1..n -> AllNames] : \A a, b \in 1..n : a # b => s[a] # s[b]} : n \in 0..MaxNames}

\* theta: a matrix of N rows and P columns
Thetas == UNION {[1..n -> [1..p -> Values]] : n \in 0..MaxRows, p \in 0..MaxCols}

\* ----------------------------------------------------------- pure helpers

\* Python's `sub in s` on strings
Contains(sub, s) ==
  \E k \in 0..(Len(s) - Len(sub)) : SubSeq(s, k + 1, k + Len(sub)) = sub

IsMeal(param) == Contains(MEAL, param)

Indices(s) == [i \in 1..Len(s) |-> i]

separate_parameters(param_names, theta_list) ==
  LET meal_indices == SelectSeq(Indices(param_names), LAMBDA i : IsMeal(param_names[i]))
      non_meal == SelectSeq(Indices(param_names), LAMBDA i : ~IsMeal(param_names[i]))
      inRange(idx) == \A k \in 1..Len(idx) : idx[k] <= Len(theta_list)
  IN IF inRange(meal_indices) /\ inRange(non_meal)
     THEN [err |-> "none",
           meal_indices |-> meal_indices,
           meal_values |-> [k \in 1..Len(meal_indices) |-> theta_list[meal_indices[k]]],
           other_params |-> [k \in 1..Len(non_meal) |-> param_names[non_meal[k]]],
           other_values |-> [k \in 1..Len(non_meal) |-> theta_list[non_meal[k]]]]
     ELSE [err |-> "IndexError",
           meal_indices |-> meal_indices,
           meal_values |-> <<>>,
           other_params |-> <<>>,
           other_values |-> <<>>]

RECURSIVE meal_loop(_, _, _)
meal_loop(scenario, meal_values, i) ==
  IF i > Len(scenario) THEN [err |-> "none", scenario |-> scenario]
  ELSE IF i > Len(meal_values) THEN [err |-> "IndexError", scenario |-> scenario]
  ELSE meal_loop([scenario EXCEPT ![i] = <<scenario[i][1], meal_values[i]>>], meal_values, i + 1)

update_meal_parameters_first_value(scenario, meal_values) ==
  IF Len(meal_values) < Len(scenario)
  THEN meal_loop(scenario, meal_values, 1)
  ELSE [err |-> "none",
        scenario |-> [i \in 1..Len(scenario) |-> <<scenario[i][1], meal_values[1]>>]]

update_meal_parameters(scenario, meal_values) == meal_loop(scenario, meal_values, 1)

\* Python setattr on an ordinary object: an attribute that does not exist
\* yet is created, no error is raised.
setattr(rec, name, value) ==
  [n \in (DOMAIN rec) \cup {name} |-> IF n = name THEN value ELSE rec[n]]

Min(a, b) == IF a < b THEN a ELSE b

RECURSIVE patient_loop(_, _, _, _)
patient_loop(rec, params, values, k) ==
  IF k > Min(Len(params), Len(values)) THEN rec
  ELSE patient_loop(setattr(rec, params[k], values[k]), params, values, k + 1)

update_patient_parameters(rec, params, values) == patient_loop(rec, params, values, 1)

\* heap h = [p |-> patient parameter records, s |-> scenario lists];
\* an environment is a pair of references into it.
set_custom_params_always_meals(h, env, theta_row, param_names, infer_meal_params) ==
  LET sep == separate_parameters(param_names, theta_row)
      m == IF sep.err = "none" /\ sep.meal_indices # <<>>
           THEN update_meal_parameters(h.s[env.scenario], sep.meal_values)
           ELSE [err |-> sep.err, scenario |-> h.s[env.scenario]]
      p == IF m.err = "none"
           THEN update_patient_parameters(h.p[env.patient], sep.other_params, sep.other_values)
           ELSE h.p[env.patient]
  IN [err |-> m.err,
      heap |-> [p |-> [h.p EXCEPT ![env.patient] = p],
                s |-> [h.s EXCEPT ![env.scenario] = m.scenario]]]

set_custom_params(h, env, theta_row, param_names, infer_meal_params) ==
  LET sep == separate_parameters(param_names, theta_row)
      m == IF sep.err = "none" /\ infer_meal_params /\ sep.meal_indices # <<>>
           THEN update_meal_parameters(h.s[env.scenario], sep.meal_values)
           ELSE [err |-> sep.err, scenario |-> h.s[env.scenario]]
      p == IF m.err = "none"
           THEN update_patient_parameters(h.p[env.patient], sep.other_params, sep.other_values)
           ELSE h.p[env.patient]
  IN [err |-> m.err,
      heap |-> [p |-> [h.p EXCEPT ![env.patient] = p],
                s |-> [h.s EXCEPT ![env.scenario] = m.scenario]]]

deepcopy_alias(h, env) == [heap |-> h, env |-> env]

deepcopy(h, env) ==
  [heap |-> [p |-> Append(h.p, h.p[env.patient]),
             s |-> Append(h.s, h.s[env.scenario])],
   env |-> [patient |-> Len(h.p) + 1, scenario |-> Len(h.s) + 1]]

list_insert_front(lst, x) == <<x>> \o lst

list_append(lst, x) == Append(lst, x)

RECURSIVE SumAmounts(_)
SumAmounts(scenario) ==
  IF scenario = <<>> THEN 0 ELSE scenario[1][2] + SumAmounts(Tail(scenario))

\* env.simulate() followed by results()["CGM"]: the external simulator is
\* deterministic (sensor seed fixed), its output depends on the patient
\* parameters and the meals only.
simulate_glucose_dynamics(h, env) ==
  LET p == h.p[env.patient]
  IN <<p[BW] + SumAmounts(h.s[env.scenario]), p[kabs]>>

Failed(completed) == \E k \in 1..Len(completed) : ~completed[k].ok

\* the entry of the completion log that belongs to dispatched item i
EntryOf(completed, i) ==
  completed[CHOOSE k \in 1..Len(completed) : completed[k].idx = i]

pool_map_unordered(completed, n) ==
  IF Failed(completed) THEN [err |-> "SimulationFailure", results |-> <<>>]
  ELSE [err |-> "none", results |-> [i \in 1..n |-> completed[i].cgm]]

pool_map_best_effort(completed, n) ==
  LET good == SelectSeq(Indices(completed), LAMBDA k : completed[k].ok)
  IN [err |-> "none", results |-> [i \in 1..Len(good) |-> completed[good[i]].cgm]]

\* p.map(f, simulations) / the list comprehension: the results in the order
\* of the inputs, or the exception of a failed call
pool_map(completed, n) ==
  IF Failed(completed) THEN [err |-> "SimulationFailure", results |-> <<>>]
  ELSE [err |-> "none", results |-> [i \in 1..n |-> EntryOf(completed, i).cgm]]

\* np.stack: raises ValueError on an empty list
np_stack(results) ==
  IF results = <<>> THEN [err |-> "ValueError", rows |-> <<>>]
  ELSE [err |-> "none", rows |-> results]

TwoTo24 == 16777216

\* .float(): float32 holds integers exactly up to 2^24 in magnitude
Float32(x) ==
  IF x <= TwoTo24 /\ -x <= TwoTo24 THEN x ELSE (x \div 2) * 2

to_float_tensor(rows) ==
  [i \in 1..Len(rows) |-> [j \in 1..Len(rows[i]) |-> Float32(rows[i][j])]]

\* ------------------------------------------------------------------- state

VARIABLES theta, params_names, scenario0, infer_meal_params, pathos_global,
          pc, heap, default_simulation_env, simulation_envs, calls, error,
          pathos, pool_created, completed, sim_count, result

vars == <<theta, params_names, scenario0, infer_meal_params, pathos_global,
          pc, heap, default_simulation_env, simulation_envs, calls, error,
          pathos, pool_created, completed, sim_count, result>>

inputs == <<theta, params_names, scenario0, infer_meal_params, pathos_global>>

NoEnv == [patient |-> 0, scenario |-> 0]

NoResult == [has |-> FALSE, rows |-> <<>>]

Init ==
  /\ theta \in Thetas
  /\ params_names \in NameSeqs
  /\ scenario0 \in Scenarios
  /\ infer_meal_params \in BOOLEAN
  /\ pathos_global \in BOOLEAN
  /\ pc = "start"
  /\ heap = [p |-> <<>>, s |-> <<>>]
  /\ default_simulation_env = NoEnv
  /\ simulation_envs = <<>>
  /\ calls = <<>>
  /\ error = "none"
  /\ pathos = pathos_global
  /\ pool_created = FALSE
  /\ completed = <<>>
  /\ sim_count = [i \in 1..Len(theta) |-> 0]
  /\ result = NoResult

\* run_glucose_simulator entered; create_simulation_envs_with_custom_params
\* builds the one default environment
load_default_simulation_env ==
  /\ pc = "start"
  /\ heap' = [p |-> <<default_params>>, s |-> <<scenario0>>]
  /\ default_simulation_env' = [patient |-> 1, scenario |-> 1]
  /\ pc' = "building"
  /\ UNCHANGED <<inputs, simulation_envs, calls, error, pathos, pool_created,
                 completed, sim_count, result>>

\* one iteration of the loop over the rows of theta
create_simulation_env ==
  /\ pc = "building"
  /\ Len(calls) < Len(theta)
  /\ LET row == Len(calls) + 1
         c == deepcopy(heap, default_simulation_env)
         r == set_custom_params(c.heap, c.env, theta[row], params_names, infer_meal_params)
     IN /\ heap' = r.heap
        /\ calls' = Append(calls,
              [env |-> c.env,
               pre_params |-> c.heap.p[c.env.patient],
               pre_scenario |-> c.heap.s[c.env.scenario],
               post_params |-> r.heap.p[c.env.patient],
               post_scenario |-> r.heap.s[c.env.scenario],
               err |-> r.err])
        /\ IF r.err = "none"
           THEN /\ simulation_envs' = list_append(simulation_envs, c.env)
                /\ UNCHANGED <<pc, error>>
           ELSE /\ pc' = "build_raised"
                /\ error' = r.err
                /\ UNCHANGED simulation_envs
  /\ UNCHANGED <<inputs, default_simulation_env, pathos, pool_created,
                 completed, sim_count, result>>

\* the list of environments is returned and simulate_batch starts: the
\* local assignment of `pathos`, then the pool is created and the map
\* dispatched, or the sequential loop starts
simulate_batch ==
  /\ pc = "building"
  /\ Len(calls) = Len(theta)
  /\ pathos' = TRUE
  /\ pool_created' = pathos'
  /\ pc' = "mapping"
  /\ UNCHANGED <<inputs, heap, default_simulation_env, simulation_envs, calls,
                 error, completed, sim_count, result>>

Done == {completed[k].idx : k \in 1..Len(completed)}

\* one call of simulate_glucose_dynamics: by any free worker of the pool,
\* or the next one of the sequential loop
run_simulation(i) ==
  /\ pc = "mapping"
  /\ i \notin Done
  /\ IF pathos THEN TRUE ELSE i = Len(completed) + 1 /\ ~Failed(completed)
  /\ \E ok \in BOOLEAN :
       completed' = Append(completed,
          [idx |-> i, ok |-> ok,
           cgm |-> IF ok THEN simulate_glucose_dynamics(heap, simulation_envs[i]) ELSE <<>>])
  /\ sim_count' = [sim_count EXCEPT ![i] = @ + 1]
  /\ UNCHANGED <<inputs, pc, heap, default_simulation_env, simulation_envs,
                 calls, error, pathos, pool_created, result>>

\* the map returns or raises; np.stack, conversion to a float tensor
batch_return ==
  /\ pc = "mapping"
  /\ IF pathos THEN Done = 1..Len(simulation_envs)
               ELSE Failed(completed) \/ Done = 1..Len(simulation_envs)
  /\ LET m == pool_map(completed, Len(simulation_envs))
         st == np_stack(m.results)
     IN IF m.err # "none"
        THEN pc' = "batch_raised" /\ error' = m.err /\ result' = NoResult
        ELSE IF st.err # "none"
        THEN pc' = "batch_raised" /\ error' = st.err /\ result' = NoResult
        ELSE /\ pc' = "returned"
             /\ error' = "none"
             /\ result' = [has |-> TRUE, rows |-> to_float_tensor(st.rows)]
  /\ UNCHANGED <<inputs, heap, default_simulation_env, simulation_envs, calls,
                 pathos, pool_created, completed, sim_count>>

Next ==
  \/ load_default_simulation_env
  \/ create_simulation_env
  \/ simulate_batch
  \/ \E i \in 1..Len(simulation_envs) : run_simulation(i)
  \/ batch_return

Spec == Init /\ [][Next]_vars

\* -------------------------------------------------------------- properties

NMeal == Cardinality({k \in 1..Len(params_names) : IsMeal(params_names[k])})

\* the position in params_names of the i-th name that contains "meal"
MealIdx(i) ==
  CHOOSE k \in 1..Len(params_names) :
    /\ IsMeal(params_names[k])
    /\ Cardinality({j \in 1..(k - 1) : IsMeal(params_names[j])}) = i - 1

NonMealPos == {k \in 1..Len(params_names) : ~IsMeal(params_names[k])}

RowLenMatches == \A r \in 1..Len(theta) : Len(theta[r]) = Len(params_names)

MealsActive == infer_meal_params /\ NMeal > 0

\* the default environment patched with a row, stated from the inputs
ExpectedParams(row) ==
  [n \in PatientAttrs \cup {params_names[k] : k \in NonMealPos} |->
     IF \E k \in NonMealPos : params_names[k] = n
     THEN row[CHOOSE k \in NonMealPos : params_names[k] = n]
     ELSE default_params[n]]

ExpectedScenario(row) ==
  IF MealsActive
  THEN [i \in 1..Len(scenario0) |-> <<scenario0[i][1], row[MealIdx(i)]>>]
  ELSE scenario0

BuildFinished == pc \in {"build_raised", "mapping", "batch_raised", "returned"}

BuildReturned == pc \in {"mapping", "batch_raised", "returned"}

EnvIsPatched(i) ==
  /\ heap.p[simulation_envs[i].patient] = ExpectedParams(theta[i])
  /\ heap.s[simulation_envs[i].scenario] = ExpectedScenario(theta[i])

\* C1: when simulate_batch returns, row i of the result batch is the CGM
\* series of environment i (as float32), whatever the order in which the
\* runs completed.
C1_RowOrderPreserved ==
  pc = "returned" =>
    /\ Len(result.rows) = Len(simulation_envs)
    /\ \A i \in 1..Len(simulation_envs) :
         result.rows[i] =
           [j \in 1..2 |-> Float32(simulate_glucose_dynamics(heap, simulation_envs[i])[j])]

\* two environments with different series, completed in reverse order
C1_Witness ==
  /\ pc = "returned"
  /\ Len(completed) = 2
  /\ completed[1].idx = 2
  /\ completed[2].idx = 1
  /\ result.rows[1] # result.rows[2]

\* C2 as stated: for every matrix whose row length equals the number of
\* names the factory returns N environments, the i-th being the default
\* environment patched with row i.
C2_Original ==
  (BuildFinished /\ RowLenMatches) =>
    /\ BuildReturned
    /\ Len(simulation_envs) = Len(theta)
    /\ \A i \in 1..Len(simulation_envs) : EnvIsPatched(i)

\* C2 amended: the same, provided that when meal parameters are patched
\* there are at least as many meal names as scenario entries.
C2_BuildsNPatchedEnvs ==
  (BuildFinished /\ RowLenMatches /\ (MealsActive => NMeal >= Len(scenario0))) =>
    /\ BuildReturned
    /\ Len(simulation_envs) = Len(theta)
    /\ \A i \in 1..Len(simulation_envs) : EnvIsPatched(i)

C2_Witness ==
  /\ BuildReturned
  /\ RowLenMatches
  /\ Len(simulation_envs) = 2
  /\ theta[1] # theta[2]
  /\ heap.p[simulation_envs[1].patient] # heap.p[simulation_envs[2].patient]
  /\ heap.s[simulation_envs[1].scenario] # heap.s[simulation_envs[2].scenario]

\* C3: the default environment keeps its construction values, no batch
\* element shares a parameter record or a scenario list with the template or
\* with another element, and every element still is as its own patch left it.
C3_TemplateAndCopiesIsolated ==
  pc # "start" =>
    /\ heap.p[default_simulation_env.patient] = default_params
    /\ heap.s[default_simulation_env.scenario] = scenario0
    /\ \A i \in 1..Len(calls) :
         /\ calls[i].env.patient # default_simulation_env.patient
         /\ calls[i].env.scenario # default_simulation_env.scenario
         /\ heap.p[calls[i].env.patient] = calls[i].post_params
         /\ heap.s[calls[i].env.scenario] = calls[i].post_scenario
         /\ \A j \in 1..Len(calls) :
              i # j => /\ calls[i].env.patient # calls[j].env.patient
                       /\ calls[i].env.scenario # calls[j].env.scenario

\* two rows patched differently, parameters and meals both changed
C3_Witness ==
  /\ Len(calls) = 2
  /\ calls[1].post_params # default_params
  /\ calls[1].post_scenario # scenario0
  /\ calls[2].post_params # calls[1].post_params
  /\ calls[2].post_scenario # calls[1].post_scenario

\* the post-state of call c has what the claim C4 says, for row r
MealsByPosition(c, r) ==
  \A i \in 1..Len(c.pre_scenario) :
    /\ i <= NMeal
    /\ MealIdx(i) <= Len(theta[r])
    /\ c.post_scenario[i] = <<c.pre_scenario[i][1], theta[r][MealIdx(i)]>>

NonMealsSet(c, r) ==
  \A k \in NonMealPos :
    /\ k <= Len(theta[r])
    /\ params_names[k] \in DOMAIN c.post_params
    /\ c.post_params[params_names[k]] = theta[r][k]

\* C4 as stated: every call of set_custom_params with infer_meal_params and
\* a meal name (and a vector that has one value per name) leaves every
\* scenario position i with (original name, i-th meal value) and every
\* non-meal name set to its value.
C4_Original ==
  \A r \in 1..Len(calls) :
    (MealsActive /\ Len(theta[r]) = Len(params_names)) =>
       MealsByPosition(calls[r], r) /\ NonMealsSet(calls[r], r)

\* C4 amended: the same for every such call that returns without raising.
C4_MealsPatchedByPosition ==
  \A r \in 1..Len(calls) :
    (MealsActive /\ calls[r].err = "none") =>
       MealsByPosition(calls[r], r) /\ NonMealsSet(calls[r], r)

\* the example of the specification
C4_Witness ==
  /\ params_names = <<BW, meal_1>>
  /\ scenario0 = << <<"breakfast", 40>> >>
  /\ infer_meal_params
  /\ Len(calls) >= 1
  /\ theta[1] = <<70, 60>>
  /\ calls[1].err = "none"
  /\ calls[1].post_params[BW] = 70
  /\ calls[1].post_scenario = << <<"breakfast", 60>> >>

DimensionMismatch(r) ==
  \/ Len(theta[r]) # Len(params_names)
  \/ MealsActive /\ NMeal # Len(scenario0)

\* C5: a dimension mismatch always ends in an error, and a call that ends in
\* an error has changed neither the scenario nor the parameter record.
C5_MismatchDetectedBeforeMutation ==
  \A r \in 1..Len(calls) :
    /\ DimensionMismatch(r) => calls[r].err # "none"
    /\ calls[r].err # "none" =>
         /\ calls[r].post_scenario = calls[r].pre_scenario
         /\ calls[r].post_params = calls[r].pre_params

HasUnknownName ==
  \E k \in NonMealPos : params_names[k] \notin PatientAttrs

\* C6: with an unknown non-meal name the build raises a configuration error
\* and no simulate() has run.
C6_UnknownNameFailsFast ==
  (HasUnknownName /\ Len(theta) > 0) =>
    /\ \A i \in 1..Len(theta) : sim_count[i] = 0
    /\ BuildFinished => pc = "build_raised"

\* C7: if a simulate() raised, the batch raises and hands back no result
\* array; no environment is simulated more than once.
C7_FailFastNoRetry ==
  /\ \A i \in 1..Len(theta) : sim_count[i] <= 1
  /\ (Failed(completed) /\ pc \in {"batch_raised", "returned"}) =>
       pc = "batch_raised" /\ ~result.has /\ result.rows = <<>>

\* one run succeeded, another raised, the batch has ended
C7_Witness ==
  /\ pc = "batch_raised"
  /\ error = "SimulationFailure"
  /\ \E a, b \in 1..Len(completed) : completed[a].ok /\ ~completed[b].ok

\* C8: zero rows give an empty result without error and without a pool; one
\* row gives a one-row result when its run succeeds.
C8_EmptyAndSingletonBatch ==
  /\ Len(theta) = 0 =>
       /\ ~pool_created
       /\ pc \notin {"build_raised", "batch_raised"}
       /\ pc = "returned" => result.has /\ result.rows = <<>>
  /\ (Len(theta) = 1 /\ pc = "returned") => Len(result.rows) = 1

\* C9: no scenario entry changes when infer_meal_params is false or no name
\* contains "meal"; the parameter record does not change when there is no
\* non-meal name.
C9_FrameOfPatch ==
  \A r \in 1..Len(calls) :
    /\ (~infer_meal_params \/ NMeal = 0) => calls[r].post_scenario = calls[r].pre_scenario
    /\ NonMealPos = {} => calls[r].post_params = calls[r].pre_params

\* a call that patched a parameter with meals switched off although a meal
\* name is present and the scenario has entries
C9_Witness ==
  \E r \in 1..Len(calls) :
    /\ ~infer_meal_params
    /\ NMeal > 0
    /\ calls[r].pre_scenario # <<>>
    /\ calls[r].err = "none"
    /\ calls[r].post_params # calls[r].pre_params

\* C10: the caller can select the sequential mode: with the module's pathos
\* switch off, the batch runs sequentially and creates no pool.
C10_SequentialModeSelectable ==
  (pc \in {"mapping", "batch_raised", "returned"} /\ ~pathos_global) =>
     ~pathos /\ ~pool_created

====
